---------------------------- MODULE Spec2Model ----------------------------
(***************************************************************************)
(* Model of the character store of the book character tracker:            *)
(* name normalisation and identity resolution, chapter processing          *)
(* (extractCharacters followed by saveCharacters), mergeCharacters and     *)
(* deleteBook.                                                             *)
(*                                                                         *)
(* A name is a sequence of tokens (the whitespace separated words of the   *)
(* string); a token is a sequence of one-character strings.                *)
(***************************************************************************)
EXTENDS Integers, Sequences, FiniteSets, TLC

(***************************************************************************)
(* Bounds of the model.                                                    *)
(***************************************************************************)
MaxIds == 3
MaxChapter == 2
MaxBatch == 3
MaxMentions == 3

Ids == 1..MaxIds
Books == {"b1", "b2"}
Chapters == 1..MaxChapter

(***************************************************************************)
(* Strings.                                                                *)
(***************************************************************************)
Upper == <<"A","B","C","D","E","F","G","H","I","J","K","L","M",
           "N","O","P","Q","R","S","T","U","V","W","X","Y","Z">>
LowerAlpha == <<"a","b","c","d","e","f","g","h","i","j","k","l","m",
                "n","o","p","q","r","s","t","u","v","w","x","y","z">>

\* String.prototype.toLowerCase, one character
LowerChar(c) ==
  IF \E i \in 1..26 : Upper[i] = c
  THEN LowerAlpha[CHOOSE i \in 1..26 : Upper[i] = c]
  ELSE c

\* toLowerCase of one token
LowerTok(t) == [i \in 1..Len(t) |-> LowerChar(t[i])]

\* toLowerCase of a name
LowerName(n) == [i \in 1..Len(n) |-> LowerTok(n[i])]

RECURSIVE SumLen(_)
SumLen(n) == IF n = <<>> THEN 0 ELSE Len(Head(n)) + SumLen(Tail(n))

\* String.length of a name: its tokens joined by single spaces
StrLen(n) == IF n = <<>> THEN 0 ELSE SumLen(n) + Len(n) - 1

\* String.includes(' ')
HasSpace(n) == Len(n) > 1

\* String.startsWith on tokens
StartsWith(full, short) ==
  /\ Len(short) <= Len(full)
  /\ \A i \in 1..Len(short) : full[i] = short[i]

\* Array.includes
Includes(s, x) == \E i \in 1..Len(s) : s[i] = x

(***************************************************************************)
(* Name normalizer.                                                        *)
(***************************************************************************)
Honorifics == { <<"m","r">>, <<"m","r","s">>, <<"m","s">>, <<"m","i","s","s">>,
                <<"d","r">>, <<"p","r","o","f">>, <<"s","i","r">>,
                <<"l","a","d","y">>, <<"l","o","r","d">> }
Suffixes == { <<"j","r">>, <<"s","r">>, <<"i","i","i">>, <<"i","v">> }

\* name.replace(/^(Mr|Mrs|Ms|Miss|Dr|Prof|Sir|Lady|Lord)\s+/i, '')
StripHonorific(n) ==
  IF Len(n) >= 2 /\ LowerTok(n[1]) \in Honorifics THEN Tail(n) ELSE n

\* .replace(/\s+(Jr|Sr|III|IV)\s*$/i, '')
StripSuffix(n) ==
  IF Len(n) >= 2 /\ LowerTok(n[Len(n)]) \in Suffixes
  THEN SubSeq(n, 1, Len(n) - 1) ELSE n

LongPart(part) == Len(part) > 1

normalizeCharacterName(n) == SelectSeq(StripSuffix(StripHonorific(n)), LongPart)

\* normalized.split(' '): the empty string splits into one empty part
SplitParts(n) == IF n = <<>> THEN << <<>> >> ELSE n

(***************************************************************************)
(* Identity resolver.                                                      *)
(***************************************************************************)

commonNicknames(k) ==
  CASE k = <<"w","i","l","l","i","a","m">> -> { <<"b","i","l","l">>, <<"b","i","l","l","y">>, <<"w","i","l","l">> }
    [] k = <<"r","o","b","e","r","t">> -> { <<"b","o","b">>, <<"b","o","b","b","y">>, <<"r","o","b">> }
    [] k = <<"r","i","c","h","a","r","d">> -> { <<"r","i","c","k">>, <<"d","i","c","k">>, <<"r","i","c","h">> }
    [] k = <<"e","l","i","z","a","b","e","t","h">> -> { <<"l","i","z">>, <<"b","e","t","h">>, <<"b","e","t","t","y">> }
    [] k = <<"m","a","r","g","a","r","e","t">> -> { <<"m","e","g">>, <<"m","a","g","g","i","e">>, <<"p","e","g","g","y">> }
    [] k = <<"k","a","t","h","e","r","i","n","e">> -> { <<"k","a","t","e">>, <<"k","a","t","i","e">>, <<"k","a","t","h","y">> }
    [] k = <<"m","i","c","h","a","e","l">> -> { <<"m","i","k","e">>, <<"m","i","c","k">> }
    [] k = <<"c","h","r","i","s","t","o","p","h","e","r">> -> { <<"c","h","r","i","s">> }
    [] k = <<"a","n","t","h","o","n","y">> -> { <<"t","o","n","y">> }
    [] k = <<"b","e","n","j","a","m","i","n">> -> { <<"b","e","n">> }
    [] k = <<"s","a","m","u","e","l">> -> { <<"s","a","m">> }
    [] k = <<"a","l","e","x","a","n","d","e","r">> -> { <<"a","l","e","x">> }
    [] k = <<"n","i","c","h","o","l","a","s">> -> { <<"n","i","c","k">> }
    [] OTHER -> {}

checkNickname(full, short) ==
  LET fullLower == LowerTok(full)
      shortLower == LowerTok(short)
  IN \/ shortLower \in commonNicknames(fullLower)
     \/ fullLower \in commonNicknames(shortLower)
     \/ (Len(shortLower) >= 3 /\ StartsWith(fullLower, shortLower))

\* nicknameRule, but a name of one part never matches a name of more parts
nicknameRuleSameShape(targetParts, existingParts) ==
  /\ \/ checkNickname(targetParts[1], existingParts[1])
     \/ checkNickname(existingParts[1], targetParts[1])
  /\ IF Len(targetParts) > 1 /\ Len(existingParts) > 1
     THEN targetParts[Len(targetParts)] = existingParts[Len(existingParts)]
     ELSE Len(targetParts) = 1 /\ Len(existingParts) = 1

\* the nickname check between the first names, and between the last names
\* if both names have one
nicknameRule(targetParts, existingParts) ==
  /\ \/ checkNickname(targetParts[1], existingParts[1])
     \/ checkNickname(existingParts[1], targetParts[1])
  /\ IF Len(targetParts) > 1 /\ Len(existingParts) > 1
     THEN targetParts[Len(targetParts)] = existingParts[Len(existingParts)]
     ELSE TRUE

\* the body of the loop of findSimilarCharacterNames: does the existing
\* name match the target name
SimilarNames(targetName, existingName) ==
  LET targetNormalized == LowerName(normalizeCharacterName(targetName))
      targetParts == SplitParts(targetNormalized)
      existingNormalized == LowerName(normalizeCharacterName(existingName))
      existingParts == SplitParts(existingNormalized)
      tLast == targetParts[Len(targetParts)]
      eLast == existingParts[Len(existingParts)]
  IN \/ targetNormalized = existingNormalized
     \/ /\ Len(targetParts) = 1
        /\ Len(existingParts) > 1
        /\ Includes(existingParts, targetParts[1])
        /\ Len(targetParts[1]) > 2
     \/ /\ Len(existingParts) = 1
        /\ Len(targetParts) > 1
        /\ Includes(targetParts, existingParts[1])
        /\ Len(existingParts[1]) > 2
     \/ /\ Len(targetParts) > 1
        /\ Len(existingParts) > 1
        /\ tLast = eLast
        /\ Len(tLast) > 2
        /\ targetParts[1][1] = existingParts[1][1]
     \/ nicknameRule(targetParts, existingParts)

(***************************************************************************)
(* The names the extraction service may return.                            *)
(***************************************************************************)
Bill == << <<"B","i","l","l">> >>
WilliamParker == << <<"W","i","l","l","i","a","m">>, <<"P","a","r","k","e","r">> >>
Jane == << <<"J","a","n","e">> >>

Names == {Bill, WilliamParker, Jane}

JohnSmith == << <<"J","o","h","n">>, <<"S","m","i","t","h">> >>
John == << <<"J","o","h","n">> >>

\* the names a stored character may have
StoredNames == Names \cup {JohnSmith, John}

\* the blank name, which processGeminiResponse skips
Blank == <<>>

\* toLowerCase and the resolver on the names of the model, evaluated once
LowerOf == [n \in StoredNames \cup {Blank} |-> LowerName(n)]

SimilarOf == [t \in StoredNames |-> [e \in StoredNames |-> SimilarNames(t, e)]]

(***************************************************************************)
(* The store.                                                              *)
(*   characters   db.characters: a function from the ids of the stored     *)
(*                records to the records                                   *)
(*   books        db.books: the ids of the stored books                    *)
(*   bookFiles    db.books: the fileName and the uploadDate of each stored *)
(*                book; the uploadDate is kept as its rank among the       *)
(*                dates of the books of the same fileName, the only dates  *)
(*                the code compares                                        *)
(*   usedCharIds  the character ids crypto.randomUUID has handed out       *)
(*   usedBookIds  the book ids crypto.randomUUID has handed out            *)
(*   lastCall     the last service call and its result                     *)
(*   input        the argument of a call of a function of the extraction   *)
(*                service on its own                                       *)
(*   output       the values such calls returned, in order                 *)
(*   ui           the state of the components of the user interface        *)
(*   tasks        the asynchronous handlers that started, each with its    *)
(*                position and its local values                            *)
(***************************************************************************)
VARIABLES characters, books, bookFiles, usedCharIds, usedBookIds, lastCall,
          input, output, ui, tasks

vars == <<characters, books, bookFiles, usedCharIds, usedBookIds, lastCall,
          input, output, ui, tasks>>

\* an absent optional field
Undef == "undefined"

\* the user interface before any component is mounted
NoUI == <<>>

\* JavaScript truthiness of an optional string
Truthy(x) == x # Undef /\ x # ""

\* a call and its result: how it ended ("ok" or the error it threw) and, for
\* extractCharacters, the ids of the list it returned
Call(op, result, ids) == [op |-> op, result |-> result, ids |-> ids]

\* db.characters.put
Put(table, char) == (char.id :> char) @@ table

\* db.characters.delete
Delete(table, id) == [i \in DOMAIN table \ {id} |-> table[i]]

\* db.characters.where('bookId').equals(bookId): the ids, which the
\* collection yields in primary key order
IdsOfBook(table, bookId) == {i \in DOMAIN table : table[i].bookId = bookId}

\* Collection.first() for a predicate on the ids of a collection
MinId(S) == CHOOSE i \in S : \A j \in S : i <= j

(***************************************************************************)
(* Chapter processing.                                                     *)
(***************************************************************************)
relevanceOrder(r) ==
  CASE r = "Minor" -> 1 [] r = "Supporting" -> 2 [] r = "Major" -> 3 [] OTHER -> 0

\* characterService.findCharacterByName: the ids that match
ByName(table, bookId, name) ==
  {i \in IdsOfBook(table, bookId) : LowerOf[table[i].name] = LowerOf[name]}

\* findSimilarCharacterNames: the ids that match
Similar(table, bookId, name) ==
  {i \in IdsOfBook(table, bookId) : SimilarOf[name][table[i].name]}

\* KeepName, but the name of the stored character is always kept
KeepNameStored(currentName, newName) == currentName

\* the more complete name of a fuzzy match
KeepName(currentName, newName) ==
  IF StrLen(newName) > StrLen(currentName)
     \/ (HasSpace(newName) /\ ~HasSpace(currentName))
  THEN newName ELSE currentName

\* the existing character a candidate name resolves to, as read from the
\* store (renamed after a fuzzy match); found = FALSE when there is none
findExisting(table, bookId, name) ==
  LET exact == ByName(table, bookId, name)
      fuzzy == Similar(table, bookId, name)
  IN IF exact # {} THEN [found |-> TRUE, char |-> table[MinId(exact)]]
     ELSE IF fuzzy # {}
          THEN [found |-> TRUE,
                char |-> [table[MinId(fuzzy)] EXCEPT
                            !.name = KeepName(@, name)]]
          ELSE [found |-> FALSE, char |-> Undef]

OccupationNote(data) ==
  IF Truthy(data.occupation) /\ data.occupation # "Unknown"
  THEN << "Occupation: " \o data.occupation >> ELSE <<>>

DescriptionNote(data) ==
  IF Truthy(data.briefDescription) THEN << data.briefDescription >> ELSE <<>>

Observed(old, new) == IF Truthy(new) /\ new # "Unknown" THEN new ELSE old

\* updateExistingCharacter, but with lastMentioned one chapter early
updateExistingCharacterEarlier(existingCharacter, extractedData, chapterNumber) ==
  LET updates == OccupationNote(extractedData) \o DescriptionNote(extractedData)
  IN [existingCharacter EXCEPT
        !.lastMentioned = chapterNumber - 1,
        !.mentionCount = @ + 1,
        !.occupation = Observed(@, extractedData.occupation),
        !.age = Observed(@, extractedData.age),
        !.location = Observed(@, extractedData.location),
        !.status = Observed(@, extractedData.status),
        !.relevance =
           IF Truthy(extractedData.relevance)
              /\ relevanceOrder(extractedData.relevance) > relevanceOrder(@)
           THEN extractedData.relevance ELSE @,
        !.briefDescription =
           IF Truthy(extractedData.briefDescription)
           THEN extractedData.briefDescription ELSE @,
        !.chapterHistory =
           IF Len(updates) > 0
           THEN Append(@, [chapter |-> chapterNumber, updates |-> updates])
           ELSE @]

updateExistingCharacter(existingCharacter, extractedData, chapterNumber) ==
  LET updates == OccupationNote(extractedData) \o DescriptionNote(extractedData)
  IN [existingCharacter EXCEPT
        !.lastMentioned = chapterNumber,
        !.mentionCount = @ + 1,
        !.occupation = Observed(@, extractedData.occupation),
        !.age = Observed(@, extractedData.age),
        !.location = Observed(@, extractedData.location),
        !.status = Observed(@, extractedData.status),
        !.relevance =
           IF Truthy(extractedData.relevance)
              /\ relevanceOrder(extractedData.relevance) > relevanceOrder(@)
           THEN extractedData.relevance ELSE @,
        !.briefDescription =
           IF Truthy(extractedData.briefDescription)
           THEN extractedData.briefDescription ELSE @,
        !.chapterHistory =
           IF Len(updates) > 0
           THEN Append(@, [chapter |-> chapterNumber, updates |-> updates])
           ELSE @]

OrElse(x, default) == IF Truthy(x) THEN x ELSE default

createNewCharacter(id, bookId, extractedData, chapterNumber) ==
  [id |-> id,
   bookId |-> bookId,
   name |-> extractedData.name,
   occupation |-> OrElse(extractedData.occupation, "Unknown"),
   age |-> OrElse(extractedData.age, "Unknown"),
   location |-> OrElse(extractedData.location, "Unknown"),
   status |-> OrElse(extractedData.status, "Unknown"),
   relevance |-> OrElse(extractedData.relevance, "Minor"),
   relationships |-> <<>>,
   firstAppearance |-> chapterNumber,
   lastMentioned |-> chapterNumber,
   briefDescription |-> extractedData.briefDescription,
   chapterHistory |->
     << [chapter |-> chapterNumber,
         updates |-> << OrElse(extractedData.briefDescription, "First appearance") >>
                     \o OccupationNote(extractedData)] >>,
   mentionCount |-> 1,
   aliases |-> <<>>]

\* processCandidates, but with every character written to the store before
\* the next candidate is resolved
RECURSIVE processCandidatesPersisting(_, _, _, _, _)
processCandidatesPersisting(table, bookId, chapterNumber, batch, fresh) ==
  IF batch = <<>> THEN <<>>
  ELSE LET extractedChar == Head(batch)
           match == findExisting(table, bookId, extractedChar.name)
           updated == updateExistingCharacter(match.char, extractedChar, chapterNumber)
           created == createNewCharacter(Head(fresh), bookId, extractedChar, chapterNumber)
       IN IF extractedChar.name = <<>>
          THEN processCandidatesPersisting(table, bookId, chapterNumber, Tail(batch), fresh)
          ELSE IF match.found
          THEN << updated >>
               \o processCandidatesPersisting(Put(table, updated), bookId, chapterNumber,
                                              Tail(batch), fresh)
          ELSE << created >>
               \o processCandidatesPersisting(Put(table, created), bookId, chapterNumber,
                                              Tail(batch), Tail(fresh))

\* the loop of processGeminiResponse: the list `characters` it builds from
\* the candidates, none of which is written to the store inside the loop;
\* fresh holds the ids crypto.randomUUID gives to the new characters
RECURSIVE processCandidates(_, _, _, _, _)
processCandidates(table, bookId, chapterNumber, batch, fresh) ==
  IF batch = <<>> THEN <<>>
  ELSE LET extractedChar == Head(batch)
           match == findExisting(table, bookId, extractedChar.name)
       IN IF extractedChar.name = <<>>
          THEN processCandidates(table, bookId, chapterNumber, Tail(batch), fresh)
          ELSE IF match.found
          THEN << updateExistingCharacter(match.char, extractedChar, chapterNumber) >>
               \o processCandidates(table, bookId, chapterNumber, Tail(batch), fresh)
          ELSE << createNewCharacter(Head(fresh), bookId, extractedChar, chapterNumber) >>
               \o processCandidates(table, bookId, chapterNumber, Tail(batch), Tail(fresh))

\* characterMap.get: the position in the list of the character the map
\* holds for a name (the last one set), 0 when it holds none
MapGet(chars, name) ==
  LET hits == {i \in 1..Len(chars) : LowerOf[chars[i].name] = LowerOf[name]}
  IN IF hits = {} THEN 0 ELSE CHOOSE i \in hits : \A j \in hits : j <= i

HasRel(relationships, targetId, type) ==
  \E i \in 1..Len(relationships) :
     /\ relationships[i].targetCharacterId = targetId
     /\ relationships[i].type = type

\* the inner loop of processRelationships, for the character at position ci
RECURSIVE addRelationships(_, _, _, _)
addRelationships(chars, ci, rels, chapterNumber) ==
  IF rels = <<>> THEN chars
  ELSE LET rel == Head(rels)
           ti == MapGet(chars, rel.targetName)
       IN IF ti = 0 \/ HasRel(chars[ci].relationships, chars[ti].id, rel.type)
          THEN addRelationships(chars, ci, Tail(rels), chapterNumber)
          ELSE addRelationships(
                 [chars EXCEPT ![ci].relationships =
                    Append(@, [targetCharacterId |-> chars[ti].id,
                               type |-> rel.type,
                               description |-> rel.description,
                               establishedInChapter |-> chapterNumber])],
                 ci, Tail(rels), chapterNumber)

RECURSIVE processRelationships(_, _, _)
processRelationships(chars, extractedData, chapterNumber) ==
  IF extractedData = <<>> THEN chars
  ELSE LET extractedChar == Head(extractedData)
           ci == MapGet(chars, extractedChar.name)
       IN IF ci = 0
          THEN processRelationships(chars, Tail(extractedData), chapterNumber)
          ELSE processRelationships(
                 addRelationships(chars, ci, extractedChar.relationships, chapterNumber),
                 Tail(extractedData), chapterNumber)

\* processGeminiResponse: the list extractCharacters returns
processGeminiResponse(table, bookId, chapterNumber, batch, fresh) ==
  processRelationships(
    processCandidates(table, bookId, chapterNumber, batch, fresh),
    batch, chapterNumber)

\* saveCharacters, but with bulkAdd in place of bulkPut: a character whose id
\* is stored is not overwritten
RECURSIVE saveCharactersAdded(_, _, _)
saveCharactersAdded(table, bookId, chars) ==
  IF chars = <<>> THEN table
  ELSE saveCharactersAdded(
         IF Head(chars).id \in DOMAIN table THEN table
         ELSE Put(table, [Head(chars) EXCEPT !.bookId = bookId]),
         bookId, Tail(chars))

\* saveCharacters: db.characters.bulkPut of the list, in order
RECURSIVE saveCharacters(_, _, _)
saveCharacters(table, bookId, chars) ==
  IF chars = <<>> THEN table
  ELSE saveCharacters(Put(table, [Head(chars) EXCEPT !.bookId = bookId]),
                      bookId, Tail(chars))

\* the number of candidates of a batch that create a character
RECURSIVE NewCount(_, _, _)
NewCount(table, bookId, batch) ==
  IF batch = <<>> THEN 0
  ELSE (IF Head(batch).name # <<>>
           /\ ~findExisting(table, bookId, Head(batch).name).found
        THEN 1 ELSE 0)
       + NewCount(table, bookId, Tail(batch))

(***************************************************************************)
(* Merge.                                                                  *)
(***************************************************************************)
\* Array.sort((a, b) => a.chapter - b.chapter), which is stable
RECURSIVE InsertByChapter(_, _)
InsertByChapter(sorted, entry) ==
  IF sorted = <<>> THEN <<entry>>
  ELSE IF Head(sorted).chapter <= entry.chapter
       THEN <<Head(sorted)>> \o InsertByChapter(Tail(sorted), entry)
       ELSE <<entry>> \o sorted

RECURSIVE SortByChapter(_)
SortByChapter(history) ==
  IF history = <<>> THEN <<>>
  ELSE InsertByChapter(SortByChapter(SubSeq(history, 1, Len(history) - 1)),
                       history[Len(history)])

\* filter((alias, index, arr) => arr.indexOf(alias) === index)
RECURSIVE RemoveDuplicates(_)
RemoveDuplicates(arr) ==
  IF arr = <<>> THEN <<>>
  ELSE LET front == SubSeq(arr, 1, Len(arr) - 1)
           last == arr[Len(arr)]
       IN IF Includes(front, last) THEN RemoveDuplicates(front)
          ELSE Append(RemoveDuplicates(front), last)

HasChapter(history, chapter) ==
  \E i \in 1..Len(history) : history[i].chapter = chapter

\* mergedRelationships, but the edges of the source are compared by their
\* target alone
mergedRelationshipsByTarget(sourceChar, targetChar) ==
  LET NotInTarget(sourceRel) ==
        \A i \in 1..Len(targetChar.relationships) :
           targetChar.relationships[i].targetCharacterId # sourceRel.targetCharacterId
  IN targetChar.relationships \o SelectSeq(sourceChar.relationships, NotInTarget)

\* the relationships of the merged record
mergedRelationships(sourceChar, targetChar) ==
  LET NotInTarget(sourceRel) ==
        ~HasRel(targetChar.relationships, sourceRel.targetCharacterId, sourceRel.type)
  IN targetChar.relationships \o SelectSeq(sourceChar.relationships, NotInTarget)

\* the chapter history of the merged record
mergedHistory(sourceChar, targetChar) ==
  LET NotInTarget(sourceHist) ==
        ~HasChapter(targetChar.chapterHistory, sourceHist.chapter)
  IN SortByChapter(targetChar.chapterHistory
                   \o SelectSeq(sourceChar.chapterHistory, NotInTarget))

\* the aliases of the merged record
mergedAliases(sourceChar, targetChar) ==
  RemoveDuplicates(targetChar.aliases \o <<sourceChar.name>> \o sourceChar.aliases)

\* mergedChar, but with the mention count of the target alone
mergedCharKeepsCount(sourceChar, targetChar) ==
  [targetChar EXCEPT
     !.firstAppearance =
        IF targetChar.firstAppearance <= sourceChar.firstAppearance
        THEN targetChar.firstAppearance ELSE sourceChar.firstAppearance,
     !.relationships = mergedRelationships(sourceChar, targetChar),
     !.chapterHistory = mergedHistory(sourceChar, targetChar),
     !.aliases = mergedAliases(sourceChar, targetChar)]

\* mergedChar of mergeCharacters
mergedChar(sourceChar, targetChar) ==
  [targetChar EXCEPT
     !.mentionCount = targetChar.mentionCount + sourceChar.mentionCount,
     !.firstAppearance =
        IF targetChar.firstAppearance <= sourceChar.firstAppearance
        THEN targetChar.firstAppearance ELSE sourceChar.firstAppearance,
     !.relationships = mergedRelationships(sourceChar, targetChar),
     !.chapterHistory = mergedHistory(sourceChar, targetChar),
     !.aliases = mergedAliases(sourceChar, targetChar)]

\* updatedRelationships, but with filter in place of map: the edges to the
\* source are dropped
updatedRelationshipsDropped(relationships, sourceCharacterId, targetCharacterId) ==
  LET Kept(rel) == rel.targetCharacterId # sourceCharacterId
  IN SelectSeq(relationships, Kept)

\* char.relationships.map(...) of the reference update loop
updatedRelationships(relationships, sourceCharacterId, targetCharacterId) ==
  [i \in 1..Len(relationships) |->
     IF relationships[i].targetCharacterId = sourceCharacterId
     THEN [relationships[i] EXCEPT !.targetCharacterId = targetCharacterId]
     ELSE relationships[i]]

\* the reference update loop over the characters of the book of the source,
\* each of which is written back when one of its edges changed
updateReferences(table, sourceCharacterId, targetCharacterId) ==
  [i \in DOMAIN table |->
     IF table[i].bookId = table[sourceCharacterId].bookId
     THEN [table[i] EXCEPT !.relationships =
             updatedRelationships(@, sourceCharacterId, targetCharacterId)]
     ELSE table[i]]

\* mergedTable, but without the delete of the source
mergedTableKeepsSource(table, sourceCharacterId, targetCharacterId) ==
  Put(updateReferences(table, sourceCharacterId, targetCharacterId),
      mergedChar(table[sourceCharacterId], table[targetCharacterId]))

\* the store after a merge that passed the checks: the reference update
\* loop, then put(mergedChar), then delete(sourceCharacterId)
mergedTable(table, sourceCharacterId, targetCharacterId) ==
  Delete(Put(updateReferences(table, sourceCharacterId, targetCharacterId),
             mergedChar(table[sourceCharacterId], table[targetCharacterId])),
         sourceCharacterId)

\* mergeResult, but without the comparison of the books
mergeResultAnyBook(table, sourceCharacterId, targetCharacterId) ==
  IF sourceCharacterId \notin DOMAIN table \/ targetCharacterId \notin DOMAIN table
  THEN "notFound"
  ELSE "ok"

\* the checks of mergeCharacters: the error it throws, or "ok"
mergeResult(table, sourceCharacterId, targetCharacterId) ==
  IF sourceCharacterId \notin DOMAIN table \/ targetCharacterId \notin DOMAIN table
  THEN "notFound"
  ELSE IF table[sourceCharacterId].bookId # table[targetCharacterId].bookId
       THEN "crossBook"
       ELSE "ok"

(***************************************************************************)
(* The observations the extraction service may return for a chapter.       *)
(***************************************************************************)
Plain == [occupation |-> Undef, age |-> Undef, location |-> Undef,
          status |-> "Unknown", relevance |-> "Minor", briefDescription |-> Undef]
Rich == [occupation |-> "Doctor", age |-> "40", location |-> "London",
         status |-> "Alive", relevance |-> "Major", briefDescription |-> "A doctor"]

Profiles == {Plain, Rich}

RelTypes == {"family"}

Candidate(name, profile, rels) ==
  [name |-> name, occupation |-> profile.occupation, age |-> profile.age,
   location |-> profile.location, status |-> profile.status,
   relevance |-> profile.relevance, briefDescription |-> profile.briefDescription,
   relationships |-> rels]

Mention(targetName, type) ==
  [targetName |-> targetName, type |-> type, description |-> "knows"]

SeqsUpTo(S, n) == UNION {[1..k -> S] : k \in 0..n}

\* batches about relationships: a plain candidate that mentions a
\* relationship to each of the up to MaxBatch - 1 plain candidates after it
RelBatch(n, followers, t) ==
  << Candidate(n, Plain, [i \in 1..Len(followers) |-> Mention(followers[i], t)]) >>
  \o [i \in 1..Len(followers) |-> Candidate(followers[i], Plain, <<>>)]

RelBatches ==
  {RelBatch(n, f, t) : n \in Names, f \in SeqsUpTo(Names, MaxBatch - 1), t \in RelTypes}

\* batches about attributes: one candidate of either profile, or a rich
\* candidate followed by a plain one
ObsBatches ==
  {<< Candidate(n, p, <<>>) >> : n \in Names, p \in Profiles}
  \cup {<< Candidate(n, Rich, <<>>), Candidate(m, Plain, <<>>) >> :
          n \in Names, m \in Names}

\* crypto.randomUUID: the next k ids that were never handed out
RECURSIVE FreshIds(_, _)
FreshIds(used, k) ==
  IF k = 0 THEN <<>>
  ELSE LET id == MinId(Ids \ used) IN <<id>> \o FreshIds(used \cup {id}, k - 1)

(***************************************************************************)
(* The operations.                                                         *)
(***************************************************************************)
NoCall == Call("none", "ok", <<>>)

Init ==
  /\ characters = <<>>
  /\ books = {}
  /\ bookFiles = <<>>
  /\ usedCharIds = {}
  /\ usedBookIds = {}
  /\ lastCall = NoCall
  /\ input = <<>>
  /\ output = <<>>
  /\ ui = NoUI
  /\ tasks = <<>>

\* new Date().toISOString() of createBook: later than the uploadDate of
\* every stored book of the same fileName
uploadDate(files, fileName) ==
  LET same == {b \in DOMAIN files : files[b].fileName = fileName}
  IN IF same = {} THEN 0
     ELSE 1 + (CHOOSE d \in {files[b].uploadDate : b \in same} :
                 \A b \in same : files[b].uploadDate <= d)

\* the chapter boundaries of a book of n chapters
ChapterBoundaries(n) == [i \in 1..n |-> [chapter |-> i]]

\* the book createBook builds
Book(fileName, date, chapterBoundaries) ==
  [fileName |-> fileName,
   totalChapters |-> Len(chapterBoundaries),
   currentChapter |-> 1,
   chapterBoundaries |-> chapterBoundaries,
   uploadDate |-> date]

\* BookService.createBook of a file
createBook(bookId, fileName, chapterBoundaries) ==
  /\ bookId \notin usedBookIds
  /\ books' = books \cup {bookId}
  /\ bookFiles' = (bookId :> Book(fileName, uploadDate(bookFiles, fileName),
                                  chapterBoundaries))
                  @@ bookFiles
  /\ usedBookIds' = usedBookIds \cup {bookId}
  /\ lastCall' = Call("createBook", "ok", <<>>)
  /\ UNCHANGED <<characters, usedCharIds, input, output, ui, tasks>>

\* BookService.createBook of a file that no other book was created from
CreateBook(bookId) == createBook(bookId, bookId, ChapterBoundaries(MaxChapter))

\* BookService.deleteBook
DeleteBook(bookId) ==
  /\ bookId \in books
  /\ characters' = [i \in DOMAIN characters \ IdsOfBook(characters, bookId)
                      |-> characters[i]]
  /\ books' = books \ {bookId}
  /\ bookFiles' = [b \in DOMAIN bookFiles \ {bookId} |-> bookFiles[b]]
  /\ lastCall' = Call("deleteBook", "ok", <<>>)
  /\ UNCHANGED <<usedCharIds, usedBookIds, input, output, ui, tasks>>

\* the sum of the mention counts of the store
RECURSIVE SumMentions(_, _)
SumMentions(table, S) ==
  IF S = {} THEN 0
  ELSE LET i == CHOOSE j \in S : TRUE
       IN table[i].mentionCount + SumMentions(table, S \ {i})

TotalMentions(table) == SumMentions(table, DOMAIN table)

\* ChapterAnalysis.handleAnalyzeChapter: extractCharacters, then
\* saveCharacters of the list it returned
AnalyzeChapter(bookId, chapterNumber, batch) ==
  /\ bookId \in books
  /\ TotalMentions(characters) + Len(batch) <= MaxMentions
  /\ Cardinality(Ids \ usedCharIds) >= NewCount(characters, bookId, batch)
  /\ LET fresh == FreshIds(usedCharIds, NewCount(characters, bookId, batch))
           chars == processGeminiResponse(characters, bookId, chapterNumber, batch, fresh)
     IN /\ characters' = saveCharacters(characters, bookId, chars)
        /\ usedCharIds' = usedCharIds \cup {fresh[i] : i \in 1..Len(fresh)}
        /\ lastCall' = Call("analyzeChapter", "ok",
                            [i \in 1..Len(chars) |-> chars[i].id])
  /\ UNCHANGED <<books, bookFiles, usedBookIds, input, output, ui, tasks>>

\* CharacterService.mergeCharacters
mergeCharacters(sourceCharacterId, targetCharacterId) ==
  LET result == mergeResult(characters, sourceCharacterId, targetCharacterId)
  IN /\ characters' =
          IF result = "ok"
          THEN mergedTable(characters, sourceCharacterId, targetCharacterId)
          ELSE characters
     /\ lastCall' = Call("mergeCharacters", result, <<>>)
     /\ UNCHANGED <<books, bookFiles, usedCharIds, usedBookIds, input, output, ui, tasks>>

\* a merge of two different ids, as the character map requests it
Merge == \E a, b \in Ids : a # b /\ mergeCharacters(a, b)

\* a merge of a character with itself, which only a direct call requests
SelfMerge == \E a \in Ids : mergeCharacters(a, a)

Create == \E bookId \in Books : CreateBook(bookId)

Remove == \E bookId \in Books : DeleteBook(bookId)

Analyze(batches) ==
  \E bookId \in Books, chapterNumber \in Chapters, batch \in batches :
     AnalyzeChapter(bookId, chapterNumber, batch)

AnalyzeRel == Analyze(RelBatches)

AnalyzeObs == Analyze(ObsBatches)

\* every call of the services, on batches about relationships
Next == Create \/ Remove \/ AnalyzeRel \/ Merge \/ SelfMerge

Spec == Init /\ [][Next]_vars

\* the calls the user interface makes, on batches about relationships
NextUI == Create \/ Remove \/ AnalyzeRel \/ Merge

SpecUI == Init /\ [][NextUI]_vars

\* the calls the user interface makes, on batches about attributes
NextObs == Create \/ Remove \/ AnalyzeObs \/ Merge

SpecObs == Init /\ [][NextObs]_vars

(***************************************************************************)
(* Properties.                                                             *)
(***************************************************************************)
Min(x, y) == IF x <= y THEN x ELSE y

\* the step is a successful mergeCharacters(a, b)
MergedStep(a, b) ==
  /\ mergeResult(characters, a, b) = "ok"
  /\ mergeCharacters(a, b)

\* C1: after a successful merge of two distinct characters a (source) and b
\* (target) of one book, a is no longer stored, b is stored, the mention
\* count of b is the sum of the two old counts, its first appearance the
\* smaller of the two old ones, and its aliases contain the old name of a
C1_MergeCombines ==
  [][\A a, b \in Ids :
       (a # b /\ MergedStep(a, b))
       => /\ a \notin DOMAIN characters'
          /\ b \in DOMAIN characters'
          /\ characters'[b].mentionCount =
               characters[a].mentionCount + characters[b].mentionCount
          /\ characters'[b].firstAppearance =
               Min(characters[a].firstAppearance, characters[b].firstAppearance)
          /\ Includes(characters'[b].aliases, characters[a].name)]_vars

\* a merge has just folded a character observed twice into another one
C1_Witness ==
  /\ lastCall.op = "mergeCharacters"
  /\ lastCall.result = "ok"
  /\ \E b \in DOMAIN characters :
       /\ characters[b].aliases # <<>>
       /\ characters[b].mentionCount = 3
       /\ characters[b].firstAppearance < characters[b].lastMentioned

\* C2: after a successful merge of a into b, every other character c of the
\* book has as many relationships as before, and each of them that pointed
\* to a points to b with its type, description and chapter unchanged
C2_EdgesRepointed ==
  [][\A a, b \in Ids :
       (a # b /\ MergedStep(a, b))
       => \A c \in IdsOfBook(characters, characters[a].bookId) \ {a, b} :
            /\ c \in DOMAIN characters'
            /\ Len(characters'[c].relationships) = Len(characters[c].relationships)
            /\ \A i \in 1..Len(characters[c].relationships) :
                 characters[c].relationships[i].targetCharacterId = a
                 => characters'[c].relationships[i] =
                      [characters[c].relationships[i] EXCEPT !.targetCharacterId = b]]_vars

\* a merge has just happened and a third character holds two edges to the
\* merged target, one of which pointed to the source before the merge
C2_Witness ==
  /\ lastCall.op = "mergeCharacters"
  /\ lastCall.result = "ok"
  /\ \E c, b \in DOMAIN characters :
       /\ c # b
       /\ characters[b].aliases # <<>>
       /\ \E i, j \in 1..Len(characters[c].relationships) :
            /\ i # j
            /\ characters[c].relationships[i].targetCharacterId = b
            /\ characters[c].relationships[j].targetCharacterId = b

\* every relationship points to a character stored in the same book
NoDanglingTarget(table) ==
  \A c \in DOMAIN table :
    \A i \in 1..Len(table[c].relationships) :
      LET t == table[c].relationships[i].targetCharacterId
      IN t \in DOMAIN table /\ table[t].bookId = table[c].bookId

\* C3: in every state reached by chapter processing, merges and deletions
\* of books, every relationship points to a character that is stored in the
\* same book
C3_NoDanglingTarget == NoDanglingTarget(characters)

\* C4: a merge of a stored character with itself is rejected with an error
\* and leaves every record of the store as it was
C4_SelfMergeRejected ==
  [][\A a \in DOMAIN characters :
       mergeCharacters(a, a)
       => /\ lastCall'.result # "ok"
          /\ characters' = characters]_vars

\* C5: a merge fails as not found exactly when the source or the target is
\* not stored, and as cross-book exactly when both are stored in different
\* books; a failed merge changes no record; a successful merge removes the
\* source, and an id that was removed is never stored again, so that the
\* same merge fails as not found from then on
C5_MergeErrors ==
  [][/\ \A a, b \in Ids :
          mergeCharacters(a, b)
          => /\ lastCall'.result = "notFound"
                  <=> (a \notin DOMAIN characters \/ b \notin DOMAIN characters)
             /\ lastCall'.result = "crossBook"
                  <=> /\ a \in DOMAIN characters
                      /\ b \in DOMAIN characters
                      /\ characters[a].bookId # characters[b].bookId
             /\ lastCall'.result # "ok" => characters' = characters
             /\ lastCall'.result = "ok" => a \notin DOMAIN characters'
     /\ \A id \in usedCharIds \ DOMAIN characters : id \notin DOMAIN characters'
    ]_vars

\* a merge has just failed as not found in a store from which an earlier
\* merge removed its source
C5_Witness ==
  /\ lastCall.op = "mergeCharacters"
  /\ lastCall.result = "notFound"
  /\ \E b \in DOMAIN characters : characters[b].aliases # <<>>

\* C6: no character holds two relationships with the same target and type
C6_NoDuplicateEdge ==
  \A c \in DOMAIN characters :
    \A i, j \in 1..Len(characters[c].relationships) :
      (/\ characters[c].relationships[i].targetCharacterId =
            characters[c].relationships[j].targetCharacterId
       /\ characters[c].relationships[i].type = characters[c].relationships[j].type)
      => i = j

\* C7: no character holds a relationship to itself
C7_NoSelfLoop ==
  \A c \in DOMAIN characters :
    \A i \in 1..Len(characters[c].relationships) :
      characters[c].relationships[i].targetCharacterId # c

\* C8: the chapter history of every character is sorted by chapter and has
\* at most one entry for a chapter
C8_HistorySorted ==
  \A c \in DOMAIN characters :
    \A i, j \in 1..Len(characters[c].chapterHistory) :
      i < j => characters[c].chapterHistory[i].chapter
                 < characters[c].chapterHistory[j].chapter

\* the highest relevance order among the candidates of a batch that resolve
\* to the stored character id, 0 when there is none
RECURSIVE ObservedOrder(_, _, _, _)
ObservedOrder(table, bookId, batch, id) ==
  IF batch = <<>> THEN 0
  ELSE LET match == findExisting(table, bookId, Head(batch).name)
           rest == ObservedOrder(table, bookId, Tail(batch), id)
           this == IF Head(batch).name # Blank /\ match.found /\ match.char.id = id
                      /\ Truthy(Head(batch).relevance)
                   THEN relevanceOrder(Head(batch).relevance) ELSE 0
       IN IF this > rest THEN this ELSE rest

\* C9: the stored relevance of a character never moves down; a call that
\* observes it leaves it at the higher of the stored relevance and the
\* relevances observed, and a merge into it leaves it unchanged
C9_RelevanceUpgraded ==
  [][/\ \A id \in DOMAIN characters \cap DOMAIN characters' :
          relevanceOrder(characters'[id].relevance)
            >= relevanceOrder(characters[id].relevance)
     /\ \A bookId \in Books, chapterNumber \in Chapters, batch \in ObsBatches :
          AnalyzeChapter(bookId, chapterNumber, batch)
          => \A id \in IdsOfBook(characters, bookId) :
               LET seen == ObservedOrder(characters, bookId, batch, id)
                   old == relevanceOrder(characters[id].relevance)
               IN relevanceOrder(characters'[id].relevance)
                    = IF seen > old THEN seen ELSE old
    ]_vars

\* C10: a chapter processing call adds exactly 1 to the mention count of
\* every character that was stored before the call and is in the list the
\* call returns, however often it is in the list
C10_OneMentionPerCall ==
  [][lastCall'.op = "analyzeChapter"
     => \A i \in 1..Len(lastCall'.ids) :
          lastCall'.ids[i] \in DOMAIN characters
          => characters'[lastCall'.ids[i]].mentionCount
               = characters[lastCall'.ids[i]].mentionCount + 1]_vars

\* a call has just returned one stored character twice, and its count went
\* from 1 to 2
C10_Witness ==
  /\ lastCall.op = "analyzeChapter"
  /\ Len(lastCall.ids) = 2
  /\ lastCall.ids[1] = lastCall.ids[2]
  /\ lastCall.ids[1] \in DOMAIN characters
  /\ characters[lastCall.ids[1]].mentionCount = 2
  /\ characters[lastCall.ids[1]].aliases = <<>>

(***************************************************************************)
(* Malformed output of the extraction service.                             *)
(***************************************************************************)
\* an element of parsed.characters that is null
Null == [null |-> TRUE]

IsNull(element) == "null" \in DOMAIN element

\* the text the service returned: json tells whether a '{' ... '}' span was
\* found and whether JSON.parse accepted it, hasList whether parsed.characters
\* is an array, elements the array
Response(json, hasList, elements) ==
  [json |-> json, hasList |-> hasList, elements |-> elements]

\* the checks of processGeminiResponse before its loop: the error thrown, or
\* "ok"
parseResponse(response) ==
  IF response.json = "none" THEN "noJson"
  ELSE IF response.json = "invalid" THEN "syntaxError"
  ELSE IF ~response.hasList THEN "noList"
  ELSE "ok"

\* the elements the loop processes before reading extractedChar.name of a
\* null element throws
RECURSIVE BeforeNull(_)
BeforeNull(elements) ==
  IF elements = <<>> \/ IsNull(Head(elements)) THEN <<>>
  ELSE <<Head(elements)>> \o BeforeNull(Tail(elements))

\* the candidates processed by a run before it throws
ProcessedBeforeError(response) ==
  IF parseResponse(response) = "ok" THEN BeforeNull(response.elements) ELSE <<>>

\* does processGeminiResponse throw on the response
Malformed(response) ==
  \/ parseResponse(response) # "ok"
  \/ \E i \in 1..Len(response.elements) : IsNull(response.elements[i])

\* afterFailedRun, but with the characters built before the error saved
afterFailedRunSaved(table, bookId, chars) == saveCharacters(table, bookId, chars)

\* the store after a run in which extractCharacters threw with the list
\* chars built so far: handleAnalyzeChapter goes to its catch block and
\* saveCharacters is not called
afterFailedRun(table, bookId, chars) == table

\* the malformed responses of the model: no JSON, unparseable JSON, no
\* characters array, and a null element after one or two candidates
MalformedResponses ==
  { Response("none", FALSE, <<>>), Response("invalid", FALSE, <<>>),
    Response("object", FALSE, <<>>) }
  \cup { Response("object", TRUE, << Candidate(n, Rich, <<>>), Null >>) :
           n \in Names }
  \cup { Response("object", TRUE,
                  << Candidate(Bill, Rich, <<>>), Candidate(Jane, Plain, <<>>), Null >>) }

\* ChapterAnalysis.handleAnalyzeChapter on a response that makes
\* extractCharacters throw
AnalyzeMalformedChapter(bookId, chapterNumber, response) ==
  /\ bookId \in books
  /\ Malformed(response)
  /\ TotalMentions(characters) + Len(ProcessedBeforeError(response)) <= MaxMentions
  /\ LET batch == ProcessedBeforeError(response)
         fresh == FreshIds(usedCharIds, NewCount(characters, bookId, batch))
         chars == processCandidates(characters, bookId, chapterNumber, batch, fresh)
     IN /\ Cardinality(Ids \ usedCharIds) >= NewCount(characters, bookId, batch)
        /\ characters' = afterFailedRun(characters, bookId, chars)
        /\ usedCharIds' = usedCharIds \cup {fresh[i] : i \in 1..Len(fresh)}
        /\ lastCall' = Call("analyzeChapter", "parseError",
                            [i \in 1..Len(chars) |-> chars[i].id])
  /\ UNCHANGED <<books, bookFiles, usedBookIds, input, output, ui, tasks>>

AnalyzeMalformed ==
  \E bookId \in Books, chapterNumber \in Chapters, response \in MalformedResponses :
     AnalyzeMalformedChapter(bookId, chapterNumber, response)

\* batches of one candidate
SingleBatches == {<< Candidate(n, p, <<>>) >> : n \in Names, p \in Profiles}

AnalyzeSingle == Analyze(SingleBatches)

\* chapter processing on well-formed and on malformed responses
NextMal == Create \/ AnalyzeSingle \/ AnalyzeMalformed

SpecMal == Init /\ [][NextMal]_vars

\* C11: a chapter processing run that ends with the parse error leaves the
\* character store exactly as it was before the run
C11_MalformedAtomic ==
  [][(lastCall'.op = "analyzeChapter" /\ lastCall'.result = "parseError")
     => characters' = characters]_vars

\* a run has just failed on a null element after it had processed two
\* candidates, one of them a stored character and one a new one
C11_Witness ==
  /\ lastCall.op = "analyzeChapter"
  /\ lastCall.result = "parseError"
  /\ Len(lastCall.ids) = 2
  /\ lastCall.ids[1] \in DOMAIN characters
  /\ lastCall.ids[2] \notin DOMAIN characters

(***************************************************************************)
(* The chapter-scoped view of the store.                                   *)
(***************************************************************************)
\* characterService.getCharactersUpToChapter, and visibleCharacters of the
\* character map: the ids of the characters shown
getCharactersUpToChapter(table, bookId, maxChapter) ==
  {i \in IdsOfBook(table, bookId) : table[i].firstAppearance <= maxChapter}

\* relevantRelationships, but with the relationships of the current chapter
\* alone
relevantRelationshipsOfChapter(character, currentChapter) ==
  LET Shown(rel) == rel.establishedInChapter = currentChapter
  IN SelectSeq(character.relationships, Shown)

\* relevantRelationships of CharacterDetail
relevantRelationships(character, currentChapter) ==
  LET Shown(rel) == rel.establishedInChapter <= currentChapter
  IN SelectSeq(character.relationships, Shown)

\* relevantHistory of CharacterDetail
relevantHistory(character, currentChapter) ==
  LET Shown(hist) == hist.chapter <= currentChapter
  IN SelectSeq(character.chapterHistory, Shown)

\* the pair keys of the edges prepareGraphData draws: one for every two
\* shown characters one of which holds a relationship to the other that was
\* established up to the current chapter
graphEdges(table, bookId, currentChapter) ==
  LET visibleCharacters == getCharactersUpToChapter(table, bookId, currentChapter)
      Drawn(c) ==
        {i \in 1..Len(table[c].relationships) :
           /\ table[c].relationships[i].establishedInChapter <= currentChapter
           /\ table[c].relationships[i].targetCharacterId \in visibleCharacters}
  IN UNION { { {c, table[c].relationships[i].targetCharacterId} : i \in Drawn(c) } :
             c \in visibleCharacters }

CharacterDetail(character, currentChapter) ==
  [name |-> character.name,
   occupation |-> OrElse(character.occupation, "Unknown"),
   age |-> OrElse(character.age, "Unknown"),
   location |-> OrElse(character.location, "Unknown"),
   status |-> character.status,
   relevance |-> character.relevance,
   firstAppearance |-> character.firstAppearance,
   lastMentioned |-> character.lastMentioned,
   mentionCount |-> character.mentionCount,
   relationships |-> relevantRelationships(character, currentChapter),
   chapterHistory |-> relevantHistory(character, currentChapter)]

\* what the application exposes of a book at the current chapter: the
\* details of the characters shown
exposed(table, bookId, currentChapter) ==
  [c \in getCharactersUpToChapter(table, bookId, currentChapter)
     |-> CharacterDetail(table[c], currentChapter)]

\* C13: processing observations of a chapter after the reader's position n
\* changes nothing of what is exposed at n, so that two runs that differ only
\* in the observations of chapters > n expose the same at n
C13_SpoilerBoundary ==
  [][\A bookId \in Books, chapterNumber \in Chapters, batch \in ObsBatches :
       AnalyzeChapter(bookId, chapterNumber, batch)
       => \A n \in Chapters :
            n < chapterNumber
            => exposed(characters', bookId, n) = exposed(characters, bookId, n)]_vars

(***************************************************************************)
(* The name normalizer on its own.                                         *)
(***************************************************************************)
MaxNameLen == 3


\* honorific tokens, suffix tokens, a one-character token and ordinary tokens
NameTokens ==
  { <<"D","r">>, <<"M","r">>, <<"J","r">>, <<"I","I","I">>, <<"A">>,
    <<"J","o","h","n">>, <<"S","m","i","t","h">> }

\* the names of up to MaxNameLen tokens
TokenNames == UNION {[1..k -> NameTokens] : k \in 1..MaxNameLen}

\* the store is empty and a name is given
InitNormalize ==
  /\ characters = <<>>
  /\ books = {}
  /\ bookFiles = <<>>
  /\ usedCharIds = {}
  /\ usedBookIds = {}
  /\ lastCall = NoCall
  /\ input \in TokenNames
  /\ output = <<>>
  /\ ui = NoUI
  /\ tasks = <<>>

\* normalizeCharacterName(input)
NormalizeName ==
  /\ output = <<>>
  /\ output' = << normalizeCharacterName(input) >>
  /\ UNCHANGED <<characters, books, bookFiles, usedCharIds, usedBookIds,
                 lastCall, input, ui, tasks>>

\* normalizeCharacterName of the name the first call returned
NormalizeAgain ==
  /\ Len(output) = 1
  /\ output' = Append(output, normalizeCharacterName(output[1]))
  /\ UNCHANGED <<characters, books, bookFiles, usedCharIds, usedBookIds,
                 lastCall, input, ui, tasks>>

NextNormalize == NormalizeName \/ NormalizeAgain

SpecNormalize == InitNormalize /\ [][NextNormalize]_vars

\* C14: the normalizer is idempotent: normalizing the normalized name of a
\* name of honorific, suffix, one-character and ordinary tokens returns it
\* unchanged
C14_NormalizeIdempotent ==
  Len(output) = 2 => output[2] = output[1]

(***************************************************************************)
(* The identity resolver on its own.                                       *)
(***************************************************************************)
MaxExisting == 2
MaxTasks == 4
MaxRuns == 3

JaneDoe == << <<"J","a","n","e">>, <<"D","o","e">> >>
JohnDoe == << <<"J","o","h","n">>, <<"D","o","e">> >>

Sam == << <<"S","a","m">> >>
SamanthaJones == << <<"S","a","m","a","n","t","h","a">>, <<"J","o","n","e","s">> >>
BillParker == << <<"B","i","l","l">>, <<"P","a","r","k","e","r">> >>

DrJohnSmith == << <<"D","r">> >> \o JohnSmith
Q == << <<"Q">> >>
M == << <<"M">> >>

ResolverNames ==
  {Bill, WilliamParker, Jane, JaneDoe, JohnDoe, JohnSmith, John, Sam, SamanthaJones,
   BillParker, DrJohnSmith, Q, M}

\* findSimilarCharacterNames on the names of the characters of the book, in
\* the order of the list: the position of the character it returns, 0 for
\* null
findSimilarCharacterNames(targetName, existingNames) ==
  LET hits == {i \in 1..Len(existingNames) : SimilarNames(targetName, existingNames[i])}
  IN IF hits = {} THEN 0 ELSE MinId(hits)

\* the resolution of a candidate name in processGeminiResponse:
\* findCharacterByName, and findSimilarCharacterNames when it finds nothing
resolveName(targetName, existingNames) ==
  LET exact == {i \in 1..Len(existingNames) :
                  LowerName(existingNames[i]) = LowerName(targetName)}
  IN IF exact # {} THEN MinId(exact)
     ELSE findSimilarCharacterNames(targetName, existingNames)

\* the store is empty; a candidate name and the names of the existing
\* characters of a book are given
InitResolve ==
  /\ characters = <<>>
  /\ books = {}
  /\ bookFiles = <<>>
  /\ usedCharIds = {}
  /\ usedBookIds = {}
  /\ lastCall = NoCall
  /\ input \in [targetName : ResolverNames,
                existingNames : SeqsUpTo(ResolverNames, MaxExisting)]
  /\ output = <<>>
  /\ ui = NoUI
  /\ tasks = <<>>

\* the candidate name is resolved
ResolveName ==
  /\ output = <<>>
  /\ output' = << resolveName(input.targetName, input.existingNames) >>
  /\ UNCHANGED <<characters, books, bookFiles, usedCharIds, usedBookIds,
                 lastCall, input, ui, tasks>>

NextResolve == ResolveName

SpecResolve == InitResolve /\ [][NextResolve]_vars

\* C15: resolving "Jane Doe" against the single existing character
\* "John Doe" returns none
C15_JaneDoeNotJohnDoe ==
  (/\ output # <<>>
   /\ input.targetName = JaneDoe
   /\ input.existingNames = << JohnDoe >>)
  => output[1] = 0

(***************************************************************************)
(* The observations of the worked example: Bill in chapter 1, William      *)
(* Parker and Jane in chapter 3.                                           *)
(***************************************************************************)
ExampleChapters == {1, 3}

Major == [Plain EXCEPT !.relevance = "Major"]

\* one plain candidate, or a major candidate that mentions a friendship to
\* the plain candidate after it
ExampleBatches ==
  {<< Candidate(n, Plain, <<>>) >> : n \in Names}
  \cup {<< Candidate(n, Major, << Mention(m, "friendship") >>),
           Candidate(m, Plain, <<>>) >> : n \in Names, m \in Names}

AnalyzeExample ==
  \E bookId \in Books, chapterNumber \in ExampleChapters, batch \in ExampleBatches :
     AnalyzeChapter(bookId, chapterNumber, batch)

NextExample == Create \/ AnalyzeExample

SpecExample == Init /\ [][NextExample]_vars

BillBatch == << Candidate(Bill, Plain, <<>>) >>

WilliamParkerBatch ==
  << Candidate(WilliamParker, Major, << Mention(Jane, "friendship") >>),
     Candidate(Jane, Plain, <<>>) >>

\* C16: on an empty book, chapter 1 with the observation Bill (Minor)
\* creates one character with firstAppearance 1 and mentionCount 1; when
\* this character X is the only one of the book, chapter 3 with William
\* Parker (Major, friendship to Jane) and Jane leaves two characters in the
\* book, X with the name William Parker, relevance Major, firstAppearance 1,
\* lastMentioned 3, mentionCount 2 and one friendship edge of chapter 3 to
\* the new character Jane
C16_EndToEnd ==
  [][\A bookId \in Books :
       /\ (IdsOfBook(characters, bookId) = {} /\ AnalyzeChapter(bookId, 1, BillBatch))
          => \E x \in Ids :
               /\ IdsOfBook(characters', bookId) = {x}
               /\ characters'[x].name = Bill
               /\ characters'[x].relevance = "Minor"
               /\ characters'[x].firstAppearance = 1
               /\ characters'[x].mentionCount = 1
       /\ \A x \in Ids :
            (/\ IdsOfBook(characters, bookId) = {x}
             /\ characters[x].name = Bill
             /\ characters[x].relevance = "Minor"
             /\ characters[x].firstAppearance = 1
             /\ characters[x].mentionCount = 1
             /\ characters[x].relationships = <<>>
             /\ AnalyzeChapter(bookId, 3, WilliamParkerBatch))
            => \E j \in Ids \ {x} :
                 /\ IdsOfBook(characters', bookId) = {x, j}
                 /\ lastCall'.ids = <<x, j>>
                 /\ characters'[j].name = Jane
                 /\ characters'[j].firstAppearance = 3
                 /\ characters'[x].name = WilliamParker
                 /\ characters'[x].relevance = "Major"
                 /\ characters'[x].firstAppearance = 1
                 /\ characters'[x].lastMentioned = 3
                 /\ characters'[x].mentionCount = 2
                 /\ characters'[x].relationships =
                      << [targetCharacterId |-> j, type |-> "friendship",
                          description |-> "knows", establishedInChapter |-> 3] >>]_vars

\* chapter 3 has just folded William Parker into the character that
\* chapter 1 created as Bill, and created Jane
C16_Witness ==
  /\ lastCall.op = "analyzeChapter"
  /\ Len(lastCall.ids) = 2
  /\ \E x, j \in DOMAIN characters :
       /\ lastCall.ids = <<x, j>>
       /\ characters[x].name = WilliamParker
       /\ characters[x].firstAppearance = 1
       /\ characters[x].lastMentioned = 3
       /\ characters[x].mentionCount = 2
       /\ characters[x].relevance = "Major"
       /\ characters[j].name = Jane
       /\ characters[j].mentionCount = 1
       /\ Len(characters[x].relationships) = 1
       /\ characters[x].relationships[1].targetCharacterId = j

(***************************************************************************)
(* The library: start-up, upload of files, saving chapter boundaries.      *)
(***************************************************************************)
FileNames == {"novel.pdf"}

\* BookService.removeDuplicateBooks: the books it deletes, which are, of
\* the books of one fileName, all but the one with the latest uploadDate
\* (two stored books of one fileName never have the same uploadDate)
removeDuplicateBooks(files) ==
  {b \in DOMAIN files :
     \E keepBook \in DOMAIN files :
        /\ files[keepBook].fileName = files[b].fileName
        /\ files[keepBook].uploadDate > files[b].uploadDate}

\* the characters left by deleteBook of each book of a set
deleteBooks(table, removed) ==
  [i \in {j \in DOMAIN table : table[j].bookId \notin removed} |-> table[i]]

\* the store after removeDuplicateBooks
CleanedUp(op) ==
  LET removed == removeDuplicateBooks(bookFiles)
  IN /\ characters' = deleteBooks(characters, removed)
     /\ books' = books \ removed
     /\ bookFiles' = [b \in DOMAIN bookFiles \ removed |-> bookFiles[b]]
     /\ lastCall' = Call(op, "ok", <<>>)
     /\ UNCHANGED <<usedCharIds, usedBookIds, input, output, ui, tasks>>

\* App.loadBooks at the start of the application, on a healthy database
\* with intact files: removeDuplicateBooks, then the books are read
LoadBooks == CleanedUp("loadBooks")

\* MainApp.handleChapterBoundariesUpdated for an open book:
\* removeDuplicateBooks, then updateChapterBoundariesSafe replaces the
\* chapter boundaries of the book (or of the book of the same fileName that
\* was kept)
handleChapterBoundariesUpdated(bookId, updatedChapters) ==
  /\ bookId \in books
  /\ LET removed == removeDuplicateBooks(bookFiles)
         existingBook ==
           IF bookId \notin removed THEN bookId
           ELSE CHOOSE b \in DOMAIN bookFiles \ removed :
                  bookFiles[b].fileName = bookFiles[bookId].fileName
     IN /\ characters' = deleteBooks(characters, removed)
        /\ books' = books \ removed
        /\ bookFiles' =
             [b \in DOMAIN bookFiles \ removed |->
                IF b = existingBook
                THEN [bookFiles[b] EXCEPT
                        !.chapterBoundaries = updatedChapters,
                        !.totalChapters = Len(updatedChapters)]
                ELSE bookFiles[b]]
  /\ lastCall' = Call("updateChapterBoundaries", "ok", <<>>)
  /\ UNCHANGED <<usedCharIds, usedBookIds, input, output, ui, tasks>>

\* the reader saves the chapter boundaries of a book as they are
SaveChapterBoundaries ==
  \E bookId \in books :
     handleChapterBoundariesUpdated(bookId, bookFiles[bookId].chapterBoundaries)

\* the user uploads a file
Upload ==
  \E bookId \in Books, fileName \in FileNames :
     createBook(bookId, fileName, ChapterBoundaries(MaxChapter))

NextLibrary ==
  Upload \/ Remove \/ AnalyzeSingle \/ Merge \/ LoadBooks \/ SaveChapterBoundaries

SpecLibrary == Init /\ [][NextLibrary]_vars

\* C17: a character leaves the store only in a deleteBook of its book
\* requested by the user or as the source of a successful merge
C17_DeletedOnlyByUser ==
  [][\A id \in DOMAIN characters \ DOMAIN characters' :
       \/ DeleteBook(characters[id].bookId)
       \/ \E targetCharacterId \in Ids : MergedStep(id, targetCharacterId)]_vars

(***************************************************************************)
(* The writes of mergeCharacters one by one.                               *)
(***************************************************************************)
\* toArray() of a collection: its ids in primary key order
RECURSIVE SortedIds(_)
SortedIds(S) ==
  IF S = {} THEN <<>> ELSE <<MinId(S)>> \o SortedIds(S \ {MinId(S)})

\* the writes mergeCharacters issues after its checks, in order: a put for
\* every character of the book one of whose edges pointed to the source,
\* the put of mergedChar, the delete of the source
mergeWrites(table, sourceCharacterId, targetCharacterId) ==
  LET allCharacters == SortedIds(IdsOfBook(table, table[sourceCharacterId].bookId))
      Repointed(id) ==
        [table[id] EXCEPT !.relationships =
           updatedRelationships(@, sourceCharacterId, targetCharacterId)]
      Updated(id) == Repointed(id) # table[id]
  IN [i \in 1..Len(SelectSeq(allCharacters, Updated)) |->
        [op |-> "put", char |-> Repointed(SelectSeq(allCharacters, Updated)[i])]]
     \o << [op |-> "put",
            char |-> mergedChar(table[sourceCharacterId], table[targetCharacterId])],
           [op |-> "delete", char |-> table[sourceCharacterId]] >>

\* the store after the first count writes of a list, each of which is
\* committed on its own
RECURSIVE applyWrites(_, _, _)
applyWrites(table, writes, count) ==
  IF count = 0 THEN table
  ELSE applyWrites(
         IF Head(writes).op = "put" THEN Put(table, Head(writes).char)
         ELSE Delete(table, Head(writes).char.id),
         Tail(writes), count - 1)

\* mergeCharacters when the write after the first count writes fails
mergeCharactersFailing(sourceCharacterId, targetCharacterId, count) ==
  /\ mergeResult(characters, sourceCharacterId, targetCharacterId) = "ok"
  /\ TotalMentions(characters) <= MaxMentions
  /\ count < Len(mergeWrites(characters, sourceCharacterId, targetCharacterId))
  /\ characters' =
       applyWrites(characters,
                   mergeWrites(characters, sourceCharacterId, targetCharacterId), count)
  /\ lastCall' = Call("mergeCharacters", "writeFailed", <<>>)
  /\ UNCHANGED <<books, bookFiles, usedCharIds, usedBookIds, input, output, ui, tasks>>

MergeFails ==
  \E a, b \in Ids, count \in 0..(MaxIds + 1) :
     a # b /\ mergeCharactersFailing(a, b, count)

NextMergeFails == Create \/ AnalyzeRel \/ MergeFails

SpecMergeFails == Init /\ [][NextMergeFails]_vars

\* C18: a merge in which a write or the delete fails leaves the store as it
\* was before the merge
C18_MergeRollback ==
  [][(lastCall'.op = "mergeCharacters" /\ lastCall'.result = "writeFailed")
     => characters' = characters]_vars

\* no character of the book was last mentioned after the chapter: the
\* chapters processed so far were not later than it
InOrder(bookId, chapterNumber) ==
  \A i \in IdsOfBook(characters, bookId) : characters[i].lastMentioned <= chapterNumber

\* C19: in a step that is not the processing of a chapter earlier than one
\* already processed for the book, the lastMentioned of no stored character
\* decreases: neither in chapter processing nor in a merge into it
C19_LastMentionedMonotone ==
  [][\/ \A id \in DOMAIN characters \cap DOMAIN characters' :
          characters'[id].lastMentioned >= characters[id].lastMentioned
     \/ \E bookId \in Books, chapterNumber \in Chapters, batch \in ObsBatches :
          AnalyzeChapter(bookId, chapterNumber, batch) /\ ~InOrder(bookId, chapterNumber)
    ]_vars

\* a character of chapter 1 that was mentioned again in chapter 2 has just
\* been the target of a merge
C19_Witness ==
  /\ lastCall.op = "mergeCharacters"
  /\ lastCall.result = "ok"
  /\ \E id \in DOMAIN characters :
       /\ characters[id].aliases # <<>>
       /\ characters[id].firstAppearance = 1
       /\ characters[id].lastMentioned = 2
       /\ characters[id].mentionCount = 3

(***************************************************************************)
(* Candidates of one batch that name the same character.                   *)
(***************************************************************************)
\* one plain candidate, or two
WithinBatches ==
  {<< Candidate(n, Plain, <<>>) >> : n \in StoredNames}
  \cup {<< Candidate(n, Plain, <<>>), Candidate(m, Plain, <<>>) >> :
          n \in StoredNames, m \in StoredNames}

AnalyzeWithin == Analyze(WithinBatches)

NextWithin == Create \/ AnalyzeWithin

SpecWithin == Init /\ [][NextWithin]_vars

\* C20: when a book without characters is processed with a batch of two
\* candidates and the resolver matches the name of the second to the name
\* of the first (as for "John Smith", "John"), the second candidate is
\* folded into the character created for the first: one record is stored
C20_WithinBatchResolution ==
  [][\A bookId \in Books, chapterNumber \in Chapters, batch \in WithinBatches :
       (/\ IdsOfBook(characters, bookId) = {}
        /\ Len(batch) = 2
        /\ resolveName(batch[2].name, << batch[1].name >>) # 0
        /\ AnalyzeChapter(bookId, chapterNumber, batch))
       => /\ Cardinality(IdsOfBook(characters', bookId)) = 1
          /\ lastCall'.ids[1] = lastCall'.ids[2]]_vars

\* C21: after a chapter is processed whose candidates have different
\* names, for every relationship mention of a candidate c whose targetName
\* is, case-insensitively, the name of a candidate d of the batch, when c
\* and d resolved to different characters the character of c holds an edge
\* of the type of the mention to the character of d, whatever the stored
\* names of the two are
C21_EdgesByCandidateName ==
  [][\A bookId \in Books, chapterNumber \in Chapters, batch \in RelBatches :
       (/\ \A c, d \in 1..Len(batch) :
             LowerOf[batch[c].name] = LowerOf[batch[d].name] => c = d
        /\ AnalyzeChapter(bookId, chapterNumber, batch))
       => \A c, d \in 1..Len(batch) :
            \A r \in 1..Len(batch[c].relationships) :
              (/\ LowerOf[batch[c].relationships[r].targetName] = LowerOf[batch[d].name]
               /\ lastCall'.ids[c] # lastCall'.ids[d])
              => HasRel(characters'[lastCall'.ids[c]].relationships,
                        lastCall'.ids[d], batch[c].relationships[r].type)]_vars

(***************************************************************************)
(* The nickname rule of the resolver on its own.                           *)
(***************************************************************************)
\* the parts findSimilarCharacterNames splits a name into
PartsOf(name) == SplitParts(LowerName(normalizeCharacterName(name)))

\* the nickname rule is applied to the candidate name and the name of the
\* first existing character
ApplyNicknameRule ==
  /\ output = <<>>
  /\ input.existingNames # <<>>
  /\ output' = << nicknameRule(PartsOf(input.targetName),
                               PartsOf(input.existingNames[1])) >>
  /\ UNCHANGED <<characters, books, bookFiles, usedCharIds, usedBookIds,
                 lastCall, input, ui, tasks>>

NextNickname == ApplyNicknameRule

SpecNickname == InitResolve /\ [][NextNickname]_vars

\* the first names of the two names are related: by the nickname table or as
\* a prefix of at least 3 characters
FirstNamesRelated ==
  LET t == PartsOf(input.targetName)[1]
      e == PartsOf(input.existingNames[1])[1]
  IN \/ t \in commonNicknames(e)
     \/ e \in commonNicknames(t)
     \/ (Len(t) >= 3 /\ StartsWith(e, t))
     \/ (Len(e) >= 3 /\ StartsWith(t, e))

\* C22 as stated: the nickname rule matches only names whose first names are
\* related and that both have one part, or both have more and equal last
\* parts
C22_NicknameSameShape ==
  (output # <<>> /\ output[1])
  => LET t == PartsOf(input.targetName)
         e == PartsOf(input.existingNames[1])
     IN /\ FirstNamesRelated
        /\ \/ (Len(t) = 1 /\ Len(e) = 1)
           \/ (Len(t) > 1 /\ Len(e) > 1 /\ t[Len(t)] = e[Len(e)])

\* C22 as amended: the nickname rule matches exactly the names whose first
\* names are related and whose last parts are equal if both names have more
\* than one part; a name of one part matches a name of more parts with a
\* related first name
C22_NicknameRule ==
  output # <<>>
  => LET t == PartsOf(input.targetName)
         e == PartsOf(input.existingNames[1])
     IN output[1] <=> /\ FirstNamesRelated
                      /\ (Len(t) > 1 /\ Len(e) > 1) => t[Len(t)] = e[Len(e)]

\* the rule has matched Sam to Samantha Jones
C22_Witness ==
  /\ output = << TRUE >>
  /\ input.targetName = Sam
  /\ input.existingNames[1] = SamanthaJones

(***************************************************************************)
(* The asynchronous handlers of the user interface.  A handler runs up to  *)
(* its next await in one step; other handlers and user events run between  *)
(* two of its steps.                                                       *)
(***************************************************************************)
\* a handler that started: handleAnalyzeChapter (op "analyze", with the
\* list extractCharacters returned once it did) or handleCharacterMerge
\* (op "merge"), and the await it is at
Task(op, pc, bookId, chapterNumber, sourceChar, targetChar) ==
  [op |-> op, pc |-> pc, bookId |-> bookId, chapterNumber |-> chapterNumber,
   sourceChar |-> sourceChar, targetChar |-> targetChar,
   batch |-> <<>>, read |-> <<>>, chars |-> <<>>]

InFlight(op) == {i \in 1..Len(tasks) : tasks[i].op = op /\ tasks[i].pc # "done"}

\* MainApp of a book: its state, the state of ChapterAnalysis when it is
\* shown, and selectedForMerge of the character map
MainApp(bookId) ==
  [book |-> bookId, characters |-> IdsOfBook(characters, bookId),
   showAnalysis |-> FALSE, isAnalyzing |-> FALSE, error |-> FALSE,
   analysisComplete |-> FALSE, selectedForMerge |-> {}]

\* App renders MainApp for the book the user selected
SelectBook(bookId) ==
  /\ ui = NoUI
  /\ bookId \in books
  /\ ui' = MainApp(bookId)
  /\ UNCHANGED <<characters, books, bookFiles, usedCharIds, usedBookIds,
                 lastCall, input, output, tasks>>

\* the button Analyze Chapter of MainApp, which shows ChapterAnalysis
ShowAnalysis ==
  /\ ui # NoUI
  /\ ~ui.showAnalysis
  /\ ~ui.isAnalyzing
  /\ ui' = [ui EXCEPT !.showAnalysis = TRUE, !.error = FALSE,
                      !.analysisComplete = FALSE]
  /\ UNCHANGED <<characters, books, bookFiles, usedCharIds, usedBookIds,
                 lastCall, input, output, tasks>>

\* ChapterAnalysis renders a button whose onClick is handleAnalyzeChapter:
\* Start Analysis or Try Again
AnalysisOffered ==
  /\ ui # NoUI
  /\ ui.showAnalysis
  /\ \/ (~ui.analysisComplete /\ ~ui.error /\ ~ui.isAnalyzing)
     \/ ui.error

\* handleAnalyzeChapter up to its first await
StartAnalysis(chapterNumber) ==
  /\ AnalysisOffered
  /\ Len(tasks) < MaxTasks
  /\ ui' = [ui EXCEPT !.isAnalyzing = TRUE, !.error = FALSE]
  /\ tasks' = Append(tasks, Task("analyze", "extract", ui.book, chapterNumber, 0, 0))
  /\ UNCHANGED <<characters, books, bookFiles, usedCharIds, usedBookIds,
                 lastCall, input, output>>

\* handleAnalyzeChapter when the book has no boundary for its chapter
StartAnalysisNoBoundary ==
  /\ AnalysisOffered
  /\ ui' = [ui EXCEPT !.error = TRUE]
  /\ UNCHANGED <<characters, books, bookFiles, usedCharIds, usedBookIds,
                 lastCall, input, output, tasks>>

\* extractCharacters of handler i returns: it read the characters of the
\* book and built the list to save
extractCharacters(i, batch) ==
  /\ tasks[i].op = "analyze"
  /\ tasks[i].pc = "extract"
  /\ TotalMentions(characters) + Len(batch) <= MaxMentions
  /\ Cardinality(Ids \ usedCharIds) >= NewCount(characters, tasks[i].bookId, batch)
  /\ LET fresh == FreshIds(usedCharIds, NewCount(characters, tasks[i].bookId, batch))
     IN /\ tasks' = [tasks EXCEPT
                       ![i].pc = "save",
                       ![i].batch = batch,
                       ![i].read = [c \in IdsOfBook(characters, tasks[i].bookId)
                                      |-> characters[c]],
                       ![i].chars = processGeminiResponse(characters, tasks[i].bookId,
                                       tasks[i].chapterNumber, batch, fresh)]
        /\ usedCharIds' = usedCharIds \cup {fresh[k] : k \in 1..Len(fresh)}
  /\ UNCHANGED <<characters, books, bookFiles, usedBookIds, lastCall, input,
                 output, ui>>

\* saveCharacters of handler i returns
savedCharacters(i) ==
  /\ tasks[i].op = "analyze"
  /\ tasks[i].pc = "save"
  /\ characters' = saveCharacters(characters, tasks[i].bookId, tasks[i].chars)
  /\ tasks' = [tasks EXCEPT ![i].pc = "done"]
  /\ lastCall' = Call("analyzeChapter", "ok",
                      [k \in 1..Len(tasks[i].chars) |-> tasks[i].chars[k].id])
  /\ UNCHANGED <<books, bookFiles, usedCharIds, usedBookIds, input, output>>

\* handleAnalyzeChapter after saveCharacters: setAnalysisComplete,
\* onCharactersUpdated, and setIsAnalyzing(false) of finally
AnalysisSaved(i) ==
  /\ savedCharacters(i)
  /\ ui' = [ui EXCEPT !.isAnalyzing = FALSE, !.analysisComplete = TRUE,
                      !.characters = IdsOfBook(characters', ui.book)]

\* handleAnalyzeChapter when an await before saveCharacters throws: catch
\* and finally
AnalysisFailed(i) ==
  /\ tasks[i].op = "analyze"
  /\ tasks[i].pc = "extract"
  /\ tasks' = [tasks EXCEPT ![i].pc = "done"]
  /\ ui' = [ui EXCEPT !.isAnalyzing = FALSE, !.error = TRUE]
  /\ lastCall' = Call("analyzeChapter", "error", <<>>)
  /\ UNCHANGED <<characters, books, bookFiles, usedCharIds, usedBookIds,
                 input, output>>

\* handleClose of ChapterAnalysis
CloseAnalysis ==
  /\ ui # NoUI
  /\ ui.showAnalysis
  /\ ~ui.isAnalyzing
  /\ ui' = [ui EXCEPT !.showAnalysis = FALSE]
  /\ UNCHANGED <<characters, books, bookFiles, usedCharIds, usedBookIds,
                 lastCall, input, output, tasks>>

\* the character map can be tapped: ChapterAnalysis, when shown, covers it
MapShown == ui # NoUI /\ ~ui.showAnalysis

\* a double tap on a node: the node is selected for merge, or deselected
DoubleTap(node) ==
  /\ MapShown
  /\ node \in ui.characters
  /\ ui' = [ui EXCEPT !.selectedForMerge = IF @ = {node} THEN {} ELSE {node}]
  /\ UNCHANGED <<characters, books, bookFiles, usedCharIds, usedBookIds,
                 lastCall, input, output, tasks>>

\* a tap on another node while one is selected calls handleCharacterMerge
MergeOffered ==
  /\ MapShown
  /\ \E node \in ui.characters : ui.selectedForMerge \notin {{}, {node}}

\* the tap, and handleCharacterMerge up to its first await; the user
\* confirms or cancels window.confirm
TapToMerge(node, confirmed) ==
  /\ MapShown
  /\ node \in ui.characters
  /\ ui.selectedForMerge \notin {{}, {node}}
  /\ confirmed => Len(tasks) < MaxTasks
  /\ ui' = [ui EXCEPT !.selectedForMerge = {}]
  /\ tasks' = IF confirmed
              THEN Append(tasks, Task("merge", "merge", ui.book, 0,
                                      MinId(ui.selectedForMerge), node))
              ELSE tasks
  /\ UNCHANGED <<characters, books, bookFiles, usedCharIds, usedBookIds,
                 lastCall, input, output>>

\* mergeCharacters of handler i returns or throws; after a merge the map is
\* built again from the characters MainApp holds
MergeReturned(i) ==
  /\ tasks[i].op = "merge"
  /\ tasks[i].pc = "merge"
  /\ TotalMentions(characters) <= MaxMentions
  /\ LET result == mergeResult(characters, tasks[i].sourceChar, tasks[i].targetChar)
     IN /\ characters' =
             IF result = "ok"
             THEN mergedTable(characters, tasks[i].sourceChar, tasks[i].targetChar)
             ELSE characters
        /\ lastCall' = Call("mergeCharacters", result, <<>>)
        /\ ui' = IF result = "ok" THEN [ui EXCEPT !.selectedForMerge = {}] ELSE ui
  /\ tasks' = [tasks EXCEPT ![i].pc = "done"]
  /\ UNCHANGED <<books, bookFiles, usedCharIds, usedBookIds, input, output>>

\* batches of one plain candidate
PlainBatches == {<< Candidate(n, Plain, <<>>) >> : n \in Names}

\* the events of the user interface and the steps of its handlers
NextHandlers ==
  \/ Create
  \/ \E bookId \in Books : SelectBook(bookId)
  \/ ShowAnalysis
  \/ \E chapterNumber \in Chapters : StartAnalysis(chapterNumber)
  \/ StartAnalysisNoBoundary
  \/ \E i \in 1..Len(tasks), batch \in PlainBatches : extractCharacters(i, batch)
  \/ \E i \in 1..Len(tasks) : AnalysisSaved(i)
  \/ \E i \in 1..Len(tasks) : AnalysisFailed(i)
  \/ CloseAnalysis
  \/ \E node \in Ids : DoubleTap(node)
  \/ \E node \in Ids, confirmed \in BOOLEAN : TapToMerge(node, confirmed)
  \/ \E i \in 1..Len(tasks) : MergeReturned(i)

SpecHandlers == Init /\ [][NextHandlers]_vars

\* C23: while a chapter analysis is in flight the user interface offers no
\* action that starts a chapter analysis, and while a merge is in flight it
\* offers no action that starts a merge
C23_NoReentrantTrigger ==
  /\ InFlight("analyze") # {} => ~AnalysisOffered
  /\ InFlight("merge") # {} => ~MergeOffered

(***************************************************************************)
(* Chapter processing runs that no user interface serializes: the store is *)
(* shared by every window the application is open in.                      *)
(***************************************************************************)
\* a run of handleAnalyzeChapter starts for a chapter of a book
StartRun(bookId, chapterNumber) ==
  /\ bookId \in books
  /\ Len(tasks) < MaxRuns
  /\ tasks' = Append(tasks, Task("analyze", "extract", bookId, chapterNumber, 0, 0))
  /\ UNCHANGED <<characters, books, bookFiles, usedCharIds, usedBookIds,
                 lastCall, input, output, ui>>

\* saveCharacters of run i returns
RunSaved(i) == savedCharacters(i) /\ UNCHANGED ui

NextRuns ==
  \/ Create
  \/ \E bookId \in Books, chapterNumber \in Chapters : StartRun(bookId, chapterNumber)
  \/ \E i \in 1..Len(tasks), batch \in PlainBatches : extractCharacters(i, batch)
  \/ \E i \in 1..Len(tasks) : RunSaved(i)

SpecRuns == Init /\ [][NextRuns]_vars

\* runs i and j of the same book have both read the characters of the book
\* before either saved: they read the same characters
ReadBeforeSave(i, j) ==
  /\ i # j
  /\ tasks[i].op = "analyze" /\ tasks[j].op = "analyze"
  /\ tasks[i].pc \in {"save", "done"} /\ tasks[j].pc \in {"save", "done"}
  /\ tasks[i].bookId = tasks[j].bookId
  /\ tasks[i].read = tasks[j].read

\* C24: when the second of two runs that both read before either saved
\* saves, a character both runs observed has its mention count increased by
\* 1 (a sequential execution increases it by 2), and a name new to both
\* runs is stored as two characters with different ids (a sequential
\* execution stores one)
C24_LostUpdateOrDuplicate ==
  [][\A i, j \in 1..Len(tasks) :
       (/\ ReadBeforeSave(i, j)
        /\ tasks[i].pc = "done"
        /\ RunSaved(j))
       => LET table == tasks[j].read
              bookId == tasks[j].bookId
              mine == findExisting(table, bookId, tasks[j].batch[1].name)
              other == findExisting(table, bookId, tasks[i].batch[1].name)
          IN /\ (mine.found /\ other.found /\ mine.char.id = other.char.id)
                => characters'[mine.char.id].mentionCount
                     = table[mine.char.id].mentionCount + 1
             /\ (~mine.found /\ ~other.found
                   /\ tasks[i].batch[1].name = tasks[j].batch[1].name)
                => /\ tasks[i].chars[1].id # tasks[j].chars[1].id
                   /\ {tasks[i].chars[1].id, tasks[j].chars[1].id}
                        \subseteq IdsOfBook(characters', bookId)]_vars

\* two runs that read before either saved have both saved, and a character
\* both observed was counted once
C24_Witness ==
  \E i, j \in 1..Len(tasks) :
     /\ ReadBeforeSave(i, j)
     /\ tasks[i].pc = "done" /\ tasks[j].pc = "done"
     /\ \E c \in DOMAIN tasks[i].read :
          /\ tasks[i].chars[1].id = c
          /\ tasks[j].chars[1].id = c
          /\ c \in DOMAIN characters
          /\ characters[c].mentionCount = tasks[i].read[c].mentionCount + 1

(***************************************************************************)
(* Merges of two characters whose relationships and chapter history are    *)
(* drawn from the lists chapter processing and earlier merges can leave.   *)
(***************************************************************************)
\* a relationship a character holds: the description tells the holder
Edges(holder) ==
  {[targetCharacterId |-> t, type |-> ty, description |-> holder,
    establishedInChapter |-> 1] : t \in Ids, ty \in {"family", "friend"}}

\* a chapter history entry of a character: the update tells the holder
Entries(holder) ==
  {[chapter |-> ch, updates |-> <<holder>>] : ch \in Chapters}

\* a stored character with the given relationships and chapter history
StoredCharacter(id, name, relationships, chapterHistory) ==
  [createNewCharacter(id, "b1", Candidate(name, Plain, <<>>), 1) EXCEPT
     !.relationships = relationships,
     !.chapterHistory = chapterHistory,
     !.mentionCount = Len(chapterHistory)]

InitMerge ==
  /\ \E ra \in SeqsUpTo(Edges("a"), 2), rb \in SeqsUpTo(Edges("b"), 1),
        ha \in SeqsUpTo(Entries("a"), 2) \ {<<>>},
        hb \in SeqsUpTo(Entries("b"), 1) \ {<<>>} :
       characters = (1 :> StoredCharacter(1, Bill, ra, ha))
                    @@ (2 :> StoredCharacter(2, Jane, rb, hb))
  /\ books = {"b1"}
  /\ bookFiles = ("b1" :> Book("b1", 0, ChapterBoundaries(MaxChapter)))
  /\ usedCharIds = {1, 2}
  /\ usedBookIds = {"b1"}
  /\ lastCall = NoCall
  /\ input = <<>>
  /\ output = <<>>
  /\ ui = NoUI
  /\ tasks = <<>>

SpecMergeRecord == InitMerge /\ [][Merge]_vars

\* the number of positions of a list that hold the element
Count(list, element) == Cardinality({i \in 1..Len(list) : list[i] = element})

\* C25: after a successful merge of a into another character b, the
\* relationships of b are its old ones followed by exactly the old ones of
\* a whose target and type no old relationship of b has, in their order;
\* the chapter history of b is in ascending order of chapter and holds
\* each old entry of b, and each old entry of a whose chapter no old entry
\* of b has, as often as before
C25_TargetWinsUnion ==
  [][\A a, b \in Ids :
       (a # b /\ MergedStep(a, b))
       => LET oldA == characters[a]
              oldB == characters[b]
              newB == characters'[b]
              n == Len(oldB.relationships)
              Kept(rel) ==
                \A i \in 1..n :
                   \/ oldB.relationships[i].targetCharacterId # rel.targetCharacterId
                   \/ oldB.relationships[i].type # rel.type
              Fresh(entry) ==
                \A i \in 1..Len(oldB.chapterHistory) :
                   oldB.chapterHistory[i].chapter # entry.chapter
          IN /\ Len(newB.relationships) >= n
             /\ SubSeq(newB.relationships, 1, n) = oldB.relationships
             /\ SubSeq(newB.relationships, n + 1, Len(newB.relationships))
                  = SelectSeq(oldA.relationships, Kept)
             /\ \A i, j \in 1..Len(newB.chapterHistory) :
                  i < j => newB.chapterHistory[i].chapter <= newB.chapterHistory[j].chapter
             /\ Len(newB.chapterHistory)
                  = Len(oldB.chapterHistory)
                    + Len(SelectSeq(oldA.chapterHistory, Fresh))
             /\ \A entry \in Entries("a") \cup Entries("b") :
                  Count(newB.chapterHistory, entry)
                    = Count(oldB.chapterHistory, entry)
                      + Count(SelectSeq(oldA.chapterHistory, Fresh), entry)]_vars

\* a merge has put a relationship of the source after the one of the
\* target, and has kept one of the two history entries of the source
C25_Witness ==
  /\ lastCall.op = "mergeCharacters"
  /\ lastCall.result = "ok"
  /\ \E b \in DOMAIN characters :
       LET rels == characters[b].relationships
           hist == characters[b].chapterHistory
       IN /\ Len(rels) = 2
          /\ rels[1].description # rels[2].description
          /\ Len(hist) = 2
          /\ hist[1].updates # hist[2].updates
          /\ characters[b].mentionCount = 3

(***************************************************************************)
(* Merges in a store of three characters, the third of either book, whose  *)
(* attributes and relationships are drawn from bounded sets.               *)
(***************************************************************************)
\* a stored character of a book with the attributes of a profile
ProfiledCharacter(id, bookId, name, profile, relationships) ==
  [createNewCharacter(id, bookId, Candidate(name, profile, <<>>), id) EXCEPT
     !.relationships = relationships,
     !.lastMentioned = id + 1]

\* every relationship of the table points to a character of the same book
SameBookEdges(table) ==
  \A c \in DOMAIN table :
    \A i \in 1..Len(table[c].relationships) :
      /\ table[c].relationships[i].targetCharacterId \in DOMAIN table
      /\ table[table[c].relationships[i].targetCharacterId].bookId = table[c].bookId

InitFrame ==
  /\ \E pa \in Profiles, pb \in Profiles, bookId \in Books,
        ra \in SeqsUpTo(Edges("a"), 1), rb \in SeqsUpTo(Edges("b"), 1),
        rc \in SeqsUpTo(Edges("c"), 1) :
       /\ characters = (1 :> ProfiledCharacter(1, "b1", Bill, pa, ra))
                       @@ (2 :> ProfiledCharacter(2, "b1", Jane, pb, rb))
                       @@ (3 :> ProfiledCharacter(3, bookId, John, Plain, rc))
       /\ SameBookEdges(characters)
  /\ books = Books
  /\ bookFiles = [b \in Books |-> Book(b, 0, ChapterBoundaries(MaxChapter))]
  /\ usedCharIds = {1, 2, 3}
  /\ usedBookIds = Books
  /\ lastCall = NoCall
  /\ input = <<>>
  /\ output = <<>>
  /\ ui = NoUI
  /\ tasks = <<>>

SpecMergeFrame == InitFrame /\ [][Merge]_vars

\* C26: after a successful merge of a into another character b, b has its
\* old id, book, name, occupation, age, location, status, relevance,
\* description and last mentioned chapter; every other character of the
\* book that had no relationship to a, and every character of another
\* book, is unchanged; the book has one character less
C26_MergeFrame ==
  [][\A a, b \in Ids :
       (a # b /\ MergedStep(a, b))
       => LET bookId == characters[a].bookId
              oldB == characters[b]
              newB == characters'[b]
          IN /\ newB.id = oldB.id
             /\ newB.bookId = oldB.bookId
             /\ newB.name = oldB.name
             /\ newB.occupation = oldB.occupation
             /\ newB.age = oldB.age
             /\ newB.location = oldB.location
             /\ newB.status = oldB.status
             /\ newB.relevance = oldB.relevance
             /\ newB.briefDescription = oldB.briefDescription
             /\ newB.lastMentioned = oldB.lastMentioned
             /\ \A c \in IdsOfBook(characters, bookId) \ {a, b} :
                  (\A i \in 1..Len(characters[c].relationships) :
                      characters[c].relationships[i].targetCharacterId # a)
                  => (c \in DOMAIN characters' /\ characters'[c] = characters[c])
             /\ \A c \in DOMAIN characters :
                  characters[c].bookId # bookId
                  => (c \in DOMAIN characters' /\ characters'[c] = characters[c])
             /\ Cardinality(IdsOfBook(characters', bookId))
                  = Cardinality(IdsOfBook(characters, bookId)) - 1]_vars

\* a rich character has been merged into a plain one, which is still plain,
\* beside a third character of the book that holds a relationship
C26_Witness ==
  /\ lastCall.op = "mergeCharacters"
  /\ lastCall.result = "ok"
  /\ \E b, c \in DOMAIN characters :
       /\ b # c
       /\ characters[b].aliases # <<>>
       /\ characters[b].occupation = "Unknown"
       /\ characters[b].mentionCount = 2
       /\ characters[c].bookId = characters[b].bookId
       /\ characters[c].relationships # <<>>
       /\ characters[c].relationships[1].targetCharacterId = b

(***************************************************************************)
(* The order of the rules of the resolver, and names without a long part.  *)
(***************************************************************************)
\* C27: when the normalized name of some existing character equals that of
\* the candidate, ignoring case, the candidate is resolved to a character
\* with that normalized name
C27_ExactMatchFirst ==
  (/\ output # <<>>
   /\ \E k \in 1..Len(input.existingNames) :
        LowerName(normalizeCharacterName(input.existingNames[k]))
          = LowerName(normalizeCharacterName(input.targetName)))
  => /\ output[1] # 0
     /\ LowerName(normalizeCharacterName(input.existingNames[output[1]]))
          = LowerName(normalizeCharacterName(input.targetName))

\* C28: a candidate whose normalized name is empty is resolved to no
\* existing character whose name differs from its own, ignoring case
C28_EmptyNameUnmatched ==
  (/\ output # <<>>
   /\ normalizeCharacterName(input.targetName) = <<>>
   /\ output[1] # 0)
  => LowerName(input.existingNames[output[1]]) = LowerName(input.targetName)

\* C29: the first appearance of every character is at most its last
\* mentioned chapter, the chapter of each entry of its chapter history and
\* the chapter each of its relationships was established in
C29_FirstAppearanceLowerBound ==
  \A c \in DOMAIN characters :
    /\ characters[c].firstAppearance <= characters[c].lastMentioned
    /\ \A i \in 1..Len(characters[c].chapterHistory) :
         characters[c].firstAppearance <= characters[c].chapterHistory[i].chapter
    /\ \A i \in 1..Len(characters[c].relationships) :
         characters[c].firstAppearance
           <= characters[c].relationships[i].establishedInChapter

(***************************************************************************)
(* The chapters of a book: the reader moves between them and edits their   *)
(* boundaries.                                                             *)
(***************************************************************************)
\* MainApp.handleChapterChange: updateBookChapter unless the chapter is out
\* of range
handleChapterChange(bookId, newChapter) ==
  /\ bookId \in books
  /\ IF newChapter < 1 \/ newChapter > bookFiles[bookId].totalChapters
     THEN UNCHANGED <<bookFiles, lastCall>>
     ELSE /\ bookFiles' = [bookFiles EXCEPT ![bookId].currentChapter = newChapter]
          /\ lastCall' = Call("updateBookChapter", "ok", <<>>)
  /\ UNCHANGED <<characters, books, usedCharIds, usedBookIds, input, output,
                 ui, tasks>>

\* the reader uploads files of one or more chapters, moves to the previous
\* or next chapter or picks a chapter, and saves lists of one or more
\* chapter boundaries
NextChapters ==
  \/ \E bookId \in Books, n \in Chapters :
        \E fileName \in FileNames \cup {bookId} :
           createBook(bookId, fileName, ChapterBoundaries(n))
  \/ Remove
  \/ \E bookId \in Books, newChapter \in 0..(MaxChapter + 1) :
        handleChapterChange(bookId, newChapter)
  \/ \E bookId \in Books, n \in Chapters :
        handleChapterBoundariesUpdated(bookId, ChapterBoundaries(n))

SpecChapters == Init /\ [][NextChapters]_vars

\* C30: the current chapter of every stored book is between 1 and its total
\* number of chapters, which is the number of its chapter boundaries
C30_CurrentChapterInRange ==
  \A bookId \in DOMAIN bookFiles :
    /\ 1 <= bookFiles[bookId].currentChapter
    /\ bookFiles[bookId].currentChapter <= bookFiles[bookId].totalChapters
    /\ bookFiles[bookId].totalChapters = Len(bookFiles[bookId].chapterBoundaries)

=============================================================================
